---- MODULE Spec2Model ----
(***************************************************************************)
(* Model of the pretix-mbway payment plugin: payment initiation            *)
(* (ifthenpay/mbway.py require_payment + create_order, and                 *)
(* payment.py MBWAY.execute_payment), the transaction record table         *)
(* (models.py) and the webhook (views.py callback).                        *)
(*                                                                         *)
(* payment.py refers to the record model as MBWAYGatewayObject with the    *)
(* key field transactionID; models.py defines the one record model of the  *)
(* repository, MBWAYIfThenPayObject, with the key field orderID.  Both are *)
(* modelled as the one table "records".  The opaque columns mbway_key and  *)
(* channel are not state any operation below branches on and are left out. *)
(***************************************************************************)
EXTENDS Integers, FiniteSets, Sequences, TLC

\* ---------------------------------------------------------------- bounds
MaxPayments == 2
MaxTx == 2

Payments == 1..MaxPayments
TxIds == 1..MaxTx
Handlers == {1, 2}
NoParam == 0

\* payment.order of an OrderPayment
OrderOf(p) == 100 + p

\* ------------------------------------------------------- program constants
STATE_PAID == "000"
STATE_CANCELLED == "020"
STATE_PENDING == "123"

PAYMENT_STATE_CREATED == "created"
PAYMENT_STATE_PENDING == "pending"
PAYMENT_STATE_CONFIRMED == "confirmed"
PAYMENT_STATE_FAILED == "failed"
PaymentStates ==
  {PAYMENT_STATE_CREATED, PAYMENT_STATE_PENDING, PAYMENT_STATE_CONFIRMED, PAYMENT_STATE_FAILED}

VARIABLES
  records,   \* rows of the transaction record table
  state,     \* state[p]: the stored state of OrderPayment p
  issued,    \* number of transaction ids the gateway has handed out
  attempt,   \* what the last initiation attempt saw and did
  cb,        \* cb[h]: the callback invocation handled by worker h
  lastPaid,  \* id of the last callback that saw '000' and answered 200, if
             \* no payment state was written since; NoParam otherwise
  overlap,   \* the invocations of the two workers ran at the same time
  init,      \* the execute_payment call in progress, when it runs step by step
  sq         \* the last status query: the answer and what the query returned

vars == <<records, state, issued, attempt, cb, lastPaid, overlap, init, sq>>

\* ------------------------------------------------------ gateway responses
\* Response of the create-payment calls: HTTP status and the gateway's code
\* ("Estado" for IfThenPay, returnStatus.statusCode for SIBS).
InitResponses == [status_code : {200, 500}, code : {"000", "E"}]

\* Response of EstadoPedidosJSON: HTTP status, top-level Estado and the list
\* EstadoPedidos of per-transaction Estado codes (empty or one entry).
StatusCodes == {STATE_PAID, STATE_CANCELLED, STATE_PENDING, "999"}
StatusResponses ==
  [status_code : {200, 500}, Estado : {"000", "E"},
   EstadoPedidos : {<<>>} \cup {<<c>> : c \in StatusCodes}]

\* The id the gateway reports in a response: a fresh one with code "000".
GatewayId(resp) == IF resp.code = "000" THEN issued + 1 ELSE NoParam
CanAnswer(resp) == resp.code = "000" => issued < MaxTx
\* the request is rejected: HTTP status other than 200 or a code other than 000
Rejected(resp) == resp.status_code # 200 \/ resp.code # "000"

\* -------------------------------------------------- transaction record table
\* MBWAYIfThenPayObject.objects.create: orderID is unique=True, the payment
\* column carries no uniqueness constraint.
ObjectsCreate(rows, rec) ==
  IF \E r \in rows : r.orderID = rec.orderID
  THEN [rows |-> rows, raised |-> "IntegrityError"]
  ELSE [rows |-> rows \cup {rec}, raised |-> "none"]

\* MBWAYIfThenPayObject.objects.get(orderID=idpedido): the rows that match
get_order_by_id(rows, idpedido) == {r \in rows : r.orderID = idpedido}

\* MBWAYIfThenPayObject.objects.get(payment=payment): the rows that match
get_order_by_payment(rows, payment) == {r \in rows : r.payment = payment}

\* ------------------------------------------------------ IfThenPay initiation
\* request_accepted: the first branch concatenates a str with the int
\* status_code, which raises TypeError before IfThenPayException is built.
request_accepted(result) ==
  IF result.status_code # 200 THEN "TypeError"
  ELSE IF result.code # "000" THEN "IfThenPayException"
  ELSE "True"

create_order_wrong_id(result, payment) ==
  [orderID |-> NoParam, order |-> OrderOf(payment), payment |-> payment]

create_order(result, payment) ==
  [orderID |-> result.IdPedido, order |-> OrderOf(payment), payment |-> payment]

\* require_payment followed by create_order, as a caller composes them
\* (require_payment raises when the request is not accepted): the rows after
\* the call and what the call raised.
IfThenPayInitiation(p, resp) ==
  LET result == [status_code |-> resp.status_code, code |-> resp.code,
                 IdPedido |-> GatewayId(resp)]
      accepted == request_accepted(result)
      made == ObjectsCreate(records, create_order(result, p))
  IN IF accepted # "True" THEN [rows |-> records, outcome |-> accepted]
     ELSE [rows |-> made.rows,
           outcome |-> IF made.raised = "none" THEN "ok" ELSE made.raised]

require_payment(p, resp) ==
  /\ CanAnswer(resp)
  /\ issued' = IF resp.code = "000" THEN issued + 1 ELSE issued
  /\ records' = IfThenPayInitiation(p, resp).rows
  /\ UNCHANGED <<state, cb, lastPaid, overlap>>

\* ----------------------------------------------------------- SIBS initiation
\* execute_payment: the rows and the stored payment state after the call,
\* what it raised, and the number of gateway calls made.  co and tr are the
\* answers to the two POSTs; their HTTP status is never read.
\*  - no phone number in the session: the state is set on the object without
\*    save(), and building the message reads request.status_code, which
\*    HttpRequest lacks;
\*  - statusCode of either answer other than '000': state failed is saved;
\*  - otherwise the row is created, then state pending is saved.
SibsInitiation(p, telemovel, co, tr) ==
  LET made == ObjectsCreate(records,
                [orderID |-> GatewayId(co), order |-> OrderOf(p), payment |-> p])
  IN IF telemovel = ""
     THEN [rows |-> records, state |-> state[p], calls |-> 0, outcome |-> "AttributeError"]
     ELSE IF co.code # "000"
     THEN [rows |-> records, state |-> PAYMENT_STATE_FAILED, calls |-> 1,
           outcome |-> "PaymentException"]
     ELSE IF tr.code # "000"
     THEN [rows |-> records, state |-> PAYMENT_STATE_FAILED, calls |-> 2,
           outcome |-> "PaymentException"]
     ELSE IF made.raised # "none"
     THEN [rows |-> records, state |-> state[p], calls |-> 2, outcome |-> made.raised]
     ELSE [rows |-> made.rows, state |-> PAYMENT_STATE_PENDING, calls |-> 2,
           outcome |-> "ok"]

execute_payment(p, telemovel, co, tr) ==
  LET r == SibsInitiation(p, telemovel, co, tr)
  IN /\ telemovel # "" => CanAnswer(co)
     /\ issued' = IF telemovel # "" /\ co.code = "000" THEN issued + 1 ELSE issued
     /\ records' = r.rows
     /\ state' = [state EXCEPT ![p] = r.state]
     /\ lastPaid' = IF r.outcome \in {"PaymentException", "ok"} THEN NoParam ELSE lastPaid
     /\ UNCHANGED <<cb, overlap>>

\* What an initiation attempt saw and did (bookkeeping, not program state).
NoAttempt ==
  [path |-> "none", pay |-> 0, before |-> {}, calls |-> 0, rejected |-> FALSE,
   gwid |-> NoParam, outcome |-> "none"]

IfThenPayAttempt(p, resp) ==
  [path |-> "ifthenpay", pay |-> p, before |-> records, calls |-> 1,
   rejected |-> Rejected(resp), gwid |-> GatewayId(resp),
   outcome |-> IfThenPayInitiation(p, resp).outcome]

SibsAttempt(p, telemovel, co, tr) ==
  LET r == SibsInitiation(p, telemovel, co, tr)
  IN [path |-> "sibs", pay |-> p, before |-> records, calls |-> r.calls,
      rejected |-> (r.calls >= 1 /\ Rejected(co)) \/ (r.calls = 2 /\ Rejected(tr)),
      gwid |-> IF r.calls >= 1 THEN GatewayId(co) ELSE NoParam,
      outcome |-> r.outcome]

\* ------------------------------------------------ OrderPayment collaborator
\* What confirm() and fail() may raise: nothing, Quota.QuotaExceededException
\* or any other exception.
Faults == {"none", "quota", "error"}

\* OrderPayment.confirm() of pretix: under a row lock, returns at once when
\* the payment is already confirmed; otherwise stores state confirmed and
\* then marks the order paid, which may raise QuotaExceededException.  Any
\* other exception leaves the row as it was.
PaymentConfirm(st, f) ==
  IF st = PAYMENT_STATE_CONFIRMED THEN [state |-> st, raised |-> "none", effect |-> "none"]
  ELSE IF f = "error" THEN [state |-> st, raised |-> "error", effect |-> "none"]
  ELSE [state |-> PAYMENT_STATE_CONFIRMED, raised |-> f, effect |-> "confirmed"]

\* OrderPayment.fail() of pretix: under a row lock, returns False when the
\* payment is neither created nor pending; otherwise stores state failed.
\* An exception leaves the row as it was.
PaymentFail(st, f) ==
  IF st \notin {PAYMENT_STATE_CREATED, PAYMENT_STATE_PENDING}
  THEN [state |-> st, raised |-> "none", effect |-> "none"]
  ELSE IF f # "none" THEN [state |-> st, raised |-> f, effect |-> "none"]
  ELSE [state |-> PAYMENT_STATE_FAILED, raised |-> "none", effect |-> "failed"]

\* ------------------------------------------------------------------ webhook
\* A worker with no request (bookkeeping fields included).
IdleCb ==
  [pc |-> "idle", tid |-> NoParam, pay |-> 0, estado |-> "-", result |-> "-",
   acted |-> "none", raised |-> "none", effect |-> "none", repeat |-> FALSE]

\* request.GET['idpedido']: a missing key raises MultiValueDictKeyError, a
\* KeyError.
GetParam(q) == IF q = NoParam THEN "KeyError" ELSE "none"

\* try/except around the parameter read: only IndexError is caught, and
\* HttpResponse(405) is a response with content 405 and status 200.
ParamHandler(raised) == IF raised = "IndexError" THEN "200" ELSE raised

callback_lookup_guess(rows, idpedido) ==
  IF get_order_by_id(rows, idpedido) # {} THEN get_order_by_id(rows, idpedido) ELSE rows

\* line 55: MBWAYIfThenPayObject.objects.get(orderID=idpedido)
callback_lookup(rows, idpedido) == get_order_by_id(rows, idpedido)

callback_action_swapped(estado) ==
  IF estado = "000" THEN "fail" ELSE IF estado = "123" THEN "confirm" ELSE "none"

\* lines 70-76: which OrderPayment method an Estado leads to
callback_action(estado) ==
  IF estado = "000" THEN "confirm" ELSE IF estado = "123" THEN "fail" ELSE "none"

callback_swallows_all(acted, raised) == raised # "none"

\* lines 71-74: except Quota.QuotaExceededException: pass, around confirm() only
callback_swallows(acted, raised) == acted = "confirm" /\ raised = "quota"

ExceptionName(raised) == IF raised = "quota" THEN "QuotaExceededException" ELSE "Exception"

InFlight(h) == cb[h].pc \in {"query", "apply"}

\* lines 49-55: read the parameter and look the record up
callback_get(h, q) ==
  LET found == callback_lookup(records, q)
  IN /\ cb[h].pc = "idle"
     /\ IF GetParam(q) # "none"
        THEN /\ cb' = [cb EXCEPT ![h] = [IdleCb EXCEPT !.pc = "done",
                                                       !.result = ParamHandler(GetParam(q))]]
             /\ overlap' = FALSE
        ELSE IF found = {}
        THEN /\ cb' = [cb EXCEPT ![h] = [IdleCb EXCEPT !.pc = "done", !.tid = q,
                                                       !.result = "DoesNotExist"]]
             /\ overlap' = FALSE
        ELSE /\ \E r \in found :
                  cb' = [cb EXCEPT ![h] = [IdleCb EXCEPT !.pc = "query", !.tid = q,
                                                         !.pay = r.payment]]
             /\ overlap' = \E g \in DOMAIN cb : g # h /\ InFlight(g)
     /\ UNCHANGED <<records, state, issued, attempt, lastPaid>>

\* lines 57-68: POST EstadoPedidosJSON and take EstadoPedidos[0]['Estado'];
\* neither the HTTP status nor the top-level Estado is read.
callback_query(h, resp) ==
  /\ cb[h].pc = "query"
  /\ IF Len(resp.EstadoPedidos) = 0
     THEN cb' = [cb EXCEPT ![h] = [@ EXCEPT !.pc = "done", !.result = "IndexError"]]
     ELSE cb' = [cb EXCEPT ![h] = [@ EXCEPT !.pc = "apply",
                                            !.estado = resp.EstadoPedidos[1]]]
  /\ UNCHANGED <<records, state, issued, attempt, lastPaid, overlap>>

\* lines 70-78: confirm or fail the payment, answer 200
callback_apply(h, f) ==
  LET p == cb[h].pay
      acted == callback_action(cb[h].estado)
      done == IF acted = "confirm" THEN PaymentConfirm(state[p], f)
              ELSE IF acted = "fail" THEN PaymentFail(state[p], f)
              ELSE [state |-> state[p], raised |-> "none", effect |-> "none"]
      result == IF done.raised = "none" \/ callback_swallows(acted, done.raised)
                THEN "200" ELSE ExceptionName(done.raised)
  IN /\ cb[h].pc = "apply"
     /\ state' = [state EXCEPT ![p] = done.state]
     /\ cb' = [cb EXCEPT ![h] = [@ EXCEPT !.pc = "done", !.acted = acted,
                                          !.raised = done.raised, !.effect = done.effect,
                                          !.result = result,
                                          !.repeat = (lastPaid = cb[h].tid)]]
     /\ lastPaid' = IF cb[h].estado = "000" /\ result = "200" THEN cb[h].tid ELSE NoParam
     /\ UNCHANGED <<records, issued, attempt, overlap>>

\* the response has been sent; the worker takes the next request
callback_return(h) ==
  /\ cb[h].pc = "done"
  /\ cb' = [cb EXCEPT ![h] = IdleCb]
  /\ overlap' = FALSE
  /\ UNCHANGED <<records, state, issued, attempt, lastPaid>>

\* no execute_payment call in progress
IdleInit == [pc |-> "idle", pay |-> 0, tid |-> NoParam]

\* no status query made yet
NoQuery ==
  [asked |-> FALSE, tid |-> NoParam,
   response |-> [body |-> "json", status_code |-> 200, Estado |-> "-",
                 EstadoPedidos |-> <<>>],
   raised |-> "none", value |-> "-"]

\* ----------------------------------------------------------- specifications
InitWith(workers) ==
  /\ records = {}
  /\ state = [p \in Payments |-> PAYMENT_STATE_CREATED]
  /\ issued = 0
  /\ attempt = NoAttempt
  /\ cb = [h \in workers |-> IdleCb]
  /\ lastPaid = NoParam
  /\ overlap = FALSE
  /\ init = IdleInit
  /\ sq = NoQuery

Telemovel == {"", "912345678"}

\* Initiations alone, each attempt observed.
InitInitiation == InitWith({1})

NextInitiation ==
  \/ \E p \in Payments, resp \in InitResponses :
       require_payment(p, resp) /\ attempt' = IfThenPayAttempt(p, resp)
         /\ UNCHANGED <<init, sq>>
  \/ \E p \in Payments, telemovel \in Telemovel, co \in InitResponses, tr \in InitResponses :
       execute_payment(p, telemovel, co, tr) /\ attempt' = SibsAttempt(p, telemovel, co, tr)
         /\ UNCHANGED <<init, sq>>

SpecInitiation == InitInitiation /\ [][NextInitiation]_vars

\* Initiations and the webhook, served by one worker.
InitWebhook == InitWith({1})

NextWebhook ==
  \/ \E p \in Payments, resp \in InitResponses :
       require_payment(p, resp) /\ UNCHANGED <<attempt, init, sq>>
  \/ \E p \in Payments, telemovel \in Telemovel, co \in InitResponses, tr \in InitResponses :
       execute_payment(p, telemovel, co, tr) /\ UNCHANGED <<attempt, init, sq>>
  \/ \E q \in {NoParam} \cup TxIds : callback_get(1, q) /\ UNCHANGED <<init, sq>>
  \/ \E resp \in StatusResponses : callback_query(1, resp) /\ UNCHANGED <<init, sq>>
  \/ \E f \in Faults : callback_apply(1, f) /\ UNCHANGED <<init, sq>>
  \/ callback_return(1) /\ UNCHANGED <<init, sq>>

SpecWebhook == InitWebhook /\ [][NextWebhook]_vars

\* Initiations and the webhook, served by two workers at the same time.
Init == InitWith(Handlers)

Next ==
  \/ \E p \in Payments, resp \in InitResponses :
       require_payment(p, resp) /\ UNCHANGED <<attempt, init, sq>>
  \/ \E p \in Payments, telemovel \in Telemovel, co \in InitResponses, tr \in InitResponses :
       execute_payment(p, telemovel, co, tr) /\ UNCHANGED <<attempt, init, sq>>
  \/ \E h \in Handlers, q \in {NoParam} \cup TxIds :
       callback_get(h, q) /\ UNCHANGED <<init, sq>>
  \/ \E h \in Handlers, resp \in StatusResponses :
       callback_query(h, resp) /\ UNCHANGED <<init, sq>>
  \/ \E h \in Handlers, f \in Faults : callback_apply(h, f) /\ UNCHANGED <<init, sq>>
  \/ \E h \in Handlers : callback_return(h) /\ UNCHANGED <<init, sq>>

Spec == Init /\ [][Next]_vars

\* ------------------------------------------- execute_payment, step by step
\* The same call as SibsInitiation, one action per gateway call and per
\* database write, so that a callback can run between them.

\* lines 228-282: the session check and the first POST (create transaction)
execute_payment_start(p, telemovel, co) ==
  /\ init.pc = "idle"
  /\ UNCHANGED <<records, attempt, cb, overlap, sq>>
  /\ IF telemovel = ""
     THEN UNCHANGED <<state, issued, lastPaid, init>>
     ELSE /\ CanAnswer(co)
          /\ issued' = IF co.code = "000" THEN issued + 1 ELSE issued
          /\ IF co.code # "000"
             THEN /\ state' = [state EXCEPT ![p] = PAYMENT_STATE_FAILED]
                  /\ lastPaid' = NoParam
                  /\ UNCHANGED init
             ELSE /\ init' = [pc |-> "bind", pay |-> p, tid |-> GatewayId(co)]
                  /\ UNCHANGED <<state, lastPaid>>

\* lines 284-306: the second POST (mbway-id/purchase)
execute_payment_bind(tr) ==
  /\ init.pc = "bind"
  /\ UNCHANGED <<records, issued, attempt, cb, overlap, sq>>
  /\ IF tr.code # "000"
     THEN /\ state' = [state EXCEPT ![init.pay] = PAYMENT_STATE_FAILED]
          /\ lastPaid' = NoParam
          /\ init' = IdleInit
     ELSE /\ init' = [init EXCEPT !.pc = "create"]
          /\ UNCHANGED <<state, lastPaid>>

\* lines 308-312: MBWAYGatewayObject.objects.create(...), committed at once
execute_payment_create ==
  LET made == ObjectsCreate(records,
                [orderID |-> init.tid, order |-> OrderOf(init.pay), payment |-> init.pay])
  IN /\ init.pc = "create"
     /\ records' = made.rows
     /\ init' = IF made.raised = "none" THEN [init EXCEPT !.pc = "save"] ELSE IdleInit
     /\ UNCHANGED <<state, issued, attempt, cb, lastPaid, overlap, sq>>

\* lines 313-315: payment.state = PENDING; payment.save(); return
execute_payment_save ==
  /\ init.pc = "save"
  /\ state' = [state EXCEPT ![init.pay] = PAYMENT_STATE_PENDING]
  /\ lastPaid' = NoParam
  /\ init' = IdleInit
  /\ UNCHANGED <<records, issued, attempt, cb, overlap, sq>>

\* execute_payment step by step and the webhook, served by one worker.
InitRace == InitWith({1})

NextRace ==
  \/ \E p \in Payments, telemovel \in Telemovel, co \in InitResponses :
       execute_payment_start(p, telemovel, co)
  \/ \E tr \in InitResponses : execute_payment_bind(tr)
  \/ execute_payment_create
  \/ execute_payment_save
  \/ \E q \in {NoParam} \cup TxIds : callback_get(1, q) /\ UNCHANGED <<init, sq>>
  \/ \E resp \in StatusResponses : callback_query(1, resp) /\ UNCHANGED <<init, sq>>
  \/ \E f \in Faults : callback_apply(1, f) /\ UNCHANGED <<init, sq>>
  \/ callback_return(1) /\ UNCHANGED <<init, sq>>

SpecRace == InitRace /\ [][NextRace]_vars

\* ------------------------------------------------------- the status query
\* What EstadoPedidosJSON may answer to require_payment_state: a body that is
\* JSON or not, and for a JSON body the fields of StatusResponses.
StateResponses ==
  {r \in [body : {"json", "text"}, status_code : {200, 500}, Estado : {"000", "E"},
          EstadoPedidos : {<<>>} \cup {<<c>> : c \in StatusCodes}] :
     r.body = "text" => r.Estado = "E" /\ r.EstadoPedidos = <<>>}

\* require_payment_state, lines 63-71: print(result.json()) parses the body
\* before anything else; with HTTP 200 and Estado '000' the Estado of the
\* first entry of EstadoPedidos is returned, otherwise ''.
require_payment_state(result) ==
  IF result.body # "json"
  THEN [raised |-> "JSONDecodeError", value |-> "-"]
  ELSE IF result.status_code = 200 /\ result.Estado = "000"
  THEN IF Len(result.EstadoPedidos) = 0
       THEN [raised |-> "IndexError", value |-> "-"]
       ELSE [raised |-> "none", value |-> result.EstadoPedidos[1]]
  ELSE [raised |-> "none", value |-> ""]

\* The logical status a returned code stands for, by the constants of mbway.py.
GatewayStatus(value) ==
  IF value = STATE_PAID THEN "Paid"
  ELSE IF value = STATE_CANCELLED THEN "Cancelled"
  ELSE IF value = STATE_PENDING THEN "Pending"
  ELSE "Unknown"

\* the status of the transaction of record idpedido is asked for
status_query(idpedido, result) ==
  LET r == require_payment_state(result)
  IN /\ get_order_by_id(records, idpedido) # {}
     /\ sq' = [asked |-> TRUE, tid |-> idpedido, response |-> result,
               raised |-> r.raised, value |-> r.value]
     /\ UNCHANGED <<records, state, issued, attempt, cb, lastPaid, overlap, init>>

\* Initiations through IfThenPay and status queries of their transactions.
InitStatusQuery == InitWith({1})

NextStatusQuery ==
  \/ \E p \in Payments, resp \in InitResponses :
       require_payment(p, resp) /\ UNCHANGED <<attempt, init, sq>>
  \/ \E idpedido \in TxIds, result \in StateResponses : status_query(idpedido, result)

SpecStatusQuery == InitStatusQuery /\ [][NextStatusQuery]_vars

\* ------------------------------------------------------------------- claims
\* the step in which worker h confirms or fails the payment and answers
ApplyStep(h) == cb[h].pc = "apply" /\ cb'[h].pc = "done"

\* the last initiation attempt was accepted by the gateway: every call it
\* made was answered with HTTP 200 and code 000
Accepted ==
  /\ attempt.calls >= 1
  /\ ~attempt.rejected
  /\ attempt.path = "sibs" => attempt.calls = 2

\* C1: an initiation attempt the gateway rejects (HTTP status other than 200
\* or a code other than 000) ends with the gateway-rejected exception of its
\* path and leaves the record table as it was.
C1_RejectedRaisesAndWritesNothing ==
  attempt.rejected =>
    /\ attempt.outcome \in {"IfThenPayException", "PaymentException"}
    /\ records = attempt.before

\* C2: an initiation attempt the gateway accepts writes exactly one new
\* record, whose id is the id the gateway reported and which is linked to the
\* payment and the order being paid.
C2_AcceptedWritesOneRecord ==
  Accepted =>
    LET rec == [orderID |-> attempt.gwid, order |-> OrderOf(attempt.pay),
                payment |-> attempt.pay]
    IN /\ attempt.outcome = "ok"
       /\ rec \notin attempt.before
       /\ records = attempt.before \cup {rec}
       /\ Cardinality(records) = Cardinality(attempt.before) + 1

C2_Witness == Accepted /\ attempt.outcome = "ok" /\ attempt.before # {}

\* C3: a callback for an id with no record fails with DoesNotExist at the
\* lookup, goes no further (no status query) and changes no payment state
\* and no record.
C3_UnknownTransaction ==
  [][\A h \in DOMAIN cb :
       (/\ cb[h].pc = "idle"
        /\ cb'[h].pc # "idle"
        /\ cb'[h].tid \in TxIds
        /\ get_order_by_id(records, cb'[h].tid) = {})
       => /\ cb'[h].pc = "done"
          /\ cb'[h].result = "DoesNotExist"
          /\ cb'[h].estado = "-"
          /\ state' = state
          /\ records' = records]_vars

C3_Witness ==
  \E h \in DOMAIN cb :
    /\ cb[h].result = "DoesNotExist"
    /\ records # {}
    /\ \E p \in Payments : state[p] # PAYMENT_STATE_CREATED

\* C4: Estado 000 (paid) confirms the payment, Estado 020 (cancelled) marks
\* it failed, and every other Estado (123 pending/expired, or unknown) leaves
\* every payment as it was.
C4_StatusDecidesAction ==
  [][\A h \in DOMAIN cb :
       ApplyStep(h) =>
         /\ cb[h].estado = STATE_PAID => cb'[h].acted = "confirm"
         /\ cb[h].estado = STATE_CANCELLED => cb'[h].acted = "fail"
         /\ cb[h].estado \notin {STATE_PAID, STATE_CANCELLED} => state' = state]_vars

\* C5: a callback that sees Estado 000 and answers 200 leaves the payment
\* confirmed, and a callback that sees Estado 000 right after such a call for
\* the same id (no payment state written in between) finds the payment
\* confirmed, changes nothing, confirms nothing again and answers 200.
C5_PaidIdempotent ==
  [][\A h \in DOMAIN cb :
       (ApplyStep(h) /\ cb[h].estado = STATE_PAID) =>
         /\ cb'[h].result = "200" => state'[cb[h].pay] = PAYMENT_STATE_CONFIRMED
         /\ lastPaid = cb[h].tid =>
              /\ state[cb[h].pay] = PAYMENT_STATE_CONFIRMED
              /\ state' = state
              /\ cb'[h].effect = "none"
              /\ cb'[h].result = "200"]_vars

C5_Witness ==
  \E h \in DOMAIN cb :
    /\ cb[h].pc = "done"
    /\ cb[h].repeat
    /\ cb[h].estado = STATE_PAID
    /\ cb[h].effect = "none"
    /\ cb[h].result = "200"
    /\ state[cb[h].pay] = PAYMENT_STATE_CONFIRMED

\* C6: once a payment is confirmed or failed, a callback that reaches its
\* confirm/fail step leaves the state as it is and answers 200, whatever
\* Estado it saw.
C6_TerminalAbsorbing ==
  [][\A h \in DOMAIN cb :
       (ApplyStep(h)
        /\ state[cb[h].pay] \in {PAYMENT_STATE_CONFIRMED, PAYMENT_STATE_FAILED})
       => state' = state /\ cb'[h].result = "200"]_vars

\* C7: two callbacks for the same id that ran at the same time never leave
\* one payment failed by one and confirmed by the other, never both confirm
\* it, and when both saw the same Estado at most one of them had an effect.
C7_ConcurrentHarmless ==
  \A a \in DOMAIN cb, b \in DOMAIN cb :
    (/\ a # b
     /\ overlap
     /\ cb[a].pc = "done" /\ cb[b].pc = "done"
     /\ cb[a].tid = cb[b].tid
     /\ cb[a].estado # "-" /\ cb[b].estado # "-")
    => /\ ~(cb[a].effect = "failed" /\ cb[b].effect = "confirmed")
       /\ ~(cb[a].effect = "confirmed" /\ cb[b].effect = "confirmed")
       /\ cb[a].estado = cb[b].estado => (cb[a].effect = "none" \/ cb[b].effect = "none")

\* C8: a request without the idpedido parameter is answered with status 405,
\* and a request processed without a propagated exception with status 200.
C8_ResponseStatus ==
  \A h \in DOMAIN cb :
    cb[h].pc = "done" =>
      /\ cb[h].tid = NoParam => cb[h].result = "405"
      /\ (cb[h].estado # "-" /\ cb[h].raised = "none") => cb[h].result = "200"

\* C9: of the exceptions confirm() and fail() raise, the callback swallows
\* (and still answers 200) exactly the quota exception raised by confirm();
\* every other one propagates as it was raised.
C9_OnlyConfirmQuotaSwallowed ==
  \A h \in DOMAIN cb :
    (cb[h].pc = "done" /\ cb[h].raised # "none") =>
      /\ cb[h].result = "200" <=> (cb[h].acted = "confirm" /\ cb[h].raised = "quota")
      /\ cb[h].result # "200" => cb[h].result = ExceptionName(cb[h].raised)

C9_Witness ==
  \E h \in DOMAIN cb :
    /\ cb[h].pc = "done"
    /\ cb[h].acted = "confirm"
    /\ cb[h].raised = "quota"
    /\ cb[h].result = "200"

\* C10: no two records share a transaction id and no two records refer to
\* the same payment: both lookups match at most one record.
C10_LookupsMatchAtMostOne ==
  /\ \A i \in TxIds : Cardinality(get_order_by_id(records, i)) <= 1
  /\ \A p \in Payments : Cardinality(get_order_by_payment(records, p)) <= 1

\* C11: a callback is past its lookup only while the record of its id is in
\* the table (so every confirm/fail it applies comes after the record was
\* created), and the final write of execute_payment (state pending) never
\* replaces a terminal state a callback has applied.
C11_RecordFirstAndNoOverwrite ==
  /\ [](\A h \in DOMAIN cb :
          cb[h].pc \in {"query", "apply"} => get_order_by_id(records, cb[h].tid) # {})
  /\ [][(/\ init.pc = "save"
          /\ init'.pc = "idle"
          /\ \/ state[init.pay] = PAYMENT_STATE_CONFIRMED
             \/ \E h \in DOMAIN cb : /\ cb[h].pc = "done"
                                     /\ cb[h].pay = init.pay
                                     /\ cb[h].effect = "failed"
                                     /\ state[init.pay] = PAYMENT_STATE_FAILED)
        => state' = state]_vars

\* C12: the status query never raises: code "000" of the queried transaction
\* yields Paid, the cancellation code Cancelled, the pending code Pending, and
\* every other answer (another code, HTTP status other than 200, a gateway
\* failure code, a body that is not JSON or lists no transaction) yields
\* Unknown.
C12_StatusQueryTotal ==
  sq.asked =>
    LET a == sq.response
        delivered == /\ a.body = "json"
                     /\ a.status_code = 200
                     /\ a.Estado = "000"
                     /\ Len(a.EstadoPedidos) > 0
        expected == IF delivered /\ a.EstadoPedidos[1] = "000" THEN "Paid"
                    ELSE IF delivered /\ a.EstadoPedidos[1] = "020" THEN "Cancelled"
                    ELSE IF delivered /\ a.EstadoPedidos[1] = "123" THEN "Pending"
                    ELSE "Unknown"
    IN /\ sq.raised = "none"
       /\ GatewayStatus(sq.value) = expected

\* C13: after execute_payment, an exit other than the successful one has left
\* the payment saved as failed and the table as it was; the payment is stored
\* as pending only after the successful exit, with its record in the table;
\* it is never left stored as created.
C13_FailingExitsSavedFailed ==
  attempt.path = "sibs" =>
    LET p == attempt.pay
    IN /\ attempt.outcome # "ok" =>
            state[p] = PAYMENT_STATE_FAILED /\ records = attempt.before
       /\ state[p] = PAYMENT_STATE_PENDING =>
            attempt.outcome = "ok" /\ get_order_by_payment(records, p) # {}
       /\ state[p] # PAYMENT_STATE_CREATED

====
